---- MODULE Spec2Model ----
(***************************************************************************)
(* Black-box variational inference: the inference engine                   *)
(* (blackbox/inferences.py) and the mean-field variational families        *)
(* (blackbox/variationals/likelihoods.py).                                 *)
(*                                                                         *)
(* Reals are modelled in thousandths: a transform of an unconstrained      *)
(* parameter u is the integer nearest to 1000 * f(u).  Python indexes from *)
(* 0, TLA+ sequences from 1: p_unconst[i] of the source is p_unconst[i+1]  *)
(* here.                                                                   *)
(***************************************************************************)
EXTENDS Integers, Sequences, FiniteSets, TLC

\* ------------------------------------------------------------------ bounds
MaxVars == 2      \* num_vars ranges over 1..MaxVars
MaxIter == 3      \* n_iter ranges over 0..MaxIter
MaxPrint == 2     \* n_print ranges over 1..MaxPrint
MaxRuns == 2      \* calls of run on one engine
MaxOver == 1      \* iterations run past the second decay boundary

\* ------------------------------------------------------- program constants
DecaySteps == 100            \* decay_steps of tf.train.exponential_decay
StarterLearningRate == <<1, 10>>   \* starter_learning_rate = 0.1
DecayRate == <<9, 10>>             \* decay_rate = 0.9

VARIABLES
    engine,         \* class of the Inference object: "MFVI" or "KLpq"
    family,         \* class of self.variational
    num_vars,       \* self.variational.num_vars
    params,         \* values of the family's unconstrained tf.Variables in the
                    \* current session; <<>> before any session initialised them
    n_runs,         \* calls of run so far
    pc,             \* position of the caller inside Inference.run
    score_arg,      \* the score argument of the current/last run call
    score,          \* self.score
    n_iter,         \* self.n_iter
    n_print,        \* self.n_print
    t,              \* loop variable of run
    global_step,    \* value of the global_step tf.Variable
    learning_rate,  \* learning rate the last optimizer step used; <<>> if none
    samples,        \* what is bound to the samples placeholder
    n_draws,        \* sample batches drawn since run was called
    n_steps,        \* optimizer steps applied since run was called
    reports,        \* progress reports since run was called: <<t, n_steps>>
    built,          \* calls made while the loss was constructed, in order
    elbos,          \* self.elbos (the expression it was assigned)
    error,          \* exception that left run, <<>> if none
    ret             \* result of the last direct call of a family method

vars == <<engine, family, num_vars, params, n_runs, pc, score_arg, score, n_iter,
          n_print, t, global_step, learning_rate, samples, n_draws, n_steps,
          reports, built, elbos, error, ret>>

\* ---------------------------------------------------------------- families
Engines == {"MFVI", "KLpq"}

\* The three families of likelihoods.py, and a Likelihood subclass that also
\* defines entropy() (the capability MFVI tests with hasattr; MFGaussian's
\* own entropy is commented out).
SourceFamilies == {"MFBernoulli", "MFBeta", "MFGaussian"}
Families == SourceFamilies \cup {"MFGaussianEntropy"}

\* 'reparam' in self.variational.__class__.__dict__
DefinesReparam(fam) == fam \in {"MFGaussian", "MFGaussianEntropy"}

\* hasattr(self.variational, 'entropy')
HasEntropy(fam) == fam = "MFGaussianEntropy"

\* number of unconstrained parameters (num_params)
NumParams(fam, nv) == IF fam = "MFBernoulli" THEN nv ELSE 2 * nv

\* the values an unconstrained parameter takes: two points of the real line
ParamVals == {0, 1}

\* the values tf.initialize_all_variables / an optimizer step can leave in the
\* family's variables
ParamVectors(fam, nv) == [1..NumParams(fam, nv) -> ParamVals]

\* an attribute or local variable that has not been assigned
Absent == "absent"

\* ------------------------------------------------------------- transforms
\* tf.sigmoid, in thousandths
Sigmoid(u) ==
    CASE u = -3 -> 47  [] u = -2 -> 119 [] u = -1 -> 269 [] u = 0 -> 500
      [] u = 1 -> 731  [] u = 2 -> 881  [] u = 3 -> 953

\* tf.nn.softplus, in thousandths
Softplus(u) ==
    CASE u = -3 -> 49   [] u = -2 -> 127  [] u = -1 -> 313 [] u = 0 -> 693
      [] u = 1 -> 1313 [] u = 2 -> 2127 [] u = 3 -> 3049

\* tf.identity, in thousandths
Identity(u) == 1000 * u

RECURSIVE SumTo(_, _)
\* np.sum(p[:-1]) for k = Len(p) - 1: the sum of the first k entries
SumTo(p, k) == IF k = 0 THEN 0 ELSE p[k] + SumTo(p, k - 1)

RECURSIVE Pow(_, _)
Pow(b, k) == IF k = 0 THEN 1 ELSE b * Pow(b, k - 1)

\* ------------------------------------------------------ loss construction
NoError == [type |-> "none", args |-> <<>>]

\* self.elbos = tf.zeros([self.n_minibatch])
ZerosElbos == "zeros([n_minibatch])"

\* for i in range(num_vars): q_log_prob += variational.log_prob_zi(i, ...)
QLogProb(nv) == [i \in 1..nv |-> "log_prob_zi"]

\* the message of KLpq's NotImplementedError, one entry per sentence (the
\* source's backquotes around .run() and score=True are left out)
KLpqReparamMessage ==
    << "KLpq: this inference method does not implement a reparameterization gradient.",
       "Please call .run() with score=True." >>

\* MFVI.build_score_loss
MFVI_build_score_loss(fam, nv) ==
    IF HasEntropy(fam)
    THEN \* x is read before anything assigned it
         [raised |-> TRUE,
          error |-> [type |-> "NameError", args |-> <<"x">>],
          calls |-> <<"build_score_loss">> \o QLogProb(nv),
          elbos |-> ZerosElbos, loss |-> Absent]
    ELSE [raised |-> FALSE, error |-> NoError,
          calls |-> <<"build_score_loss">> \o QLogProb(nv)
                    \o <<"data.sample", "model.log_prob">>,
          elbos |-> "log_prob(x, samples) - q_log_prob",
          loss |-> "-reduce_mean(q_log_prob * stop_gradient(elbos))"]

\* MFVI.build_reparam_loss
MFVI_build_reparam_loss(fam, nv) ==
    IF ~DefinesReparam(fam)
    THEN [raised |-> TRUE,
          error |-> [type |-> "AttributeError", args |-> <<"reparam">>],
          calls |-> <<"build_reparam_loss">>,
          elbos |-> ZerosElbos, loss |-> Absent]
    ELSE IF HasEntropy(fam)
    THEN [raised |-> FALSE, error |-> NoError,
          calls |-> <<"build_reparam_loss", "reparam", "data.sample",
                      "model.log_prob", "entropy">>,
          elbos |-> "reduce_mean(log_prob(x, z)) + entropy()",
          loss |-> "-elbos"]
    ELSE [raised |-> FALSE, error |-> NoError,
          calls |-> <<"build_reparam_loss", "reparam">> \o QLogProb(nv)
                    \o <<"data.sample", "model.log_prob">>,
          elbos |-> "reduce_mean(log_prob(x, z) - q_log_prob)",
          loss |-> "-elbos"]

\* KLpq.build_score_loss
KLpq_build_score_loss(fam, nv) ==
    [raised |-> FALSE, error |-> NoError,
     calls |-> <<"build_score_loss">> \o QLogProb(nv)
               \o <<"data.sample", "model.log_prob">>,
     elbos |-> "w * log_w",
     loss |-> "-reduce_mean(q_log_prob * stop_gradient(w))"]

\* KLpq.build_reparam_loss raising a NotImplementedError without a message,
\* as the base class does
KLpq_build_reparam_loss_noMessage(fam, nv) ==
    [raised |-> TRUE,
     error |-> [type |-> "NotImplementedError", args |-> <<>>],
     calls |-> <<"build_reparam_loss">>,
     elbos |-> ZerosElbos, loss |-> Absent]

\* KLpq.build_reparam_loss
KLpq_build_reparam_loss(fam, nv) ==
    [raised |-> TRUE,
     error |-> [type |-> "NotImplementedError", args |-> KLpqReparamMessage],
     calls |-> <<"build_reparam_loss">>,
     elbos |-> ZerosElbos, loss |-> Absent]

\* self.build_score_loss(), dispatched on the engine's class
build_score_loss(eng, fam, nv) ==
    IF eng = "MFVI" THEN MFVI_build_score_loss(fam, nv)
    ELSE KLpq_build_score_loss(fam, nv)

\* self.build_reparam_loss(), dispatched on the engine's class
build_reparam_loss(eng, fam, nv) ==
    IF eng = "MFVI" THEN MFVI_build_reparam_loss(fam, nv)
    ELSE KLpq_build_reparam_loss(fam, nv)

\* ---------------------------------------------------------- Inference.run
ScoreArgs == {"None", "True", "False"}

\* the estimator resolved from the score argument alone, whatever the family
ResolveScore_ignoresCapability(sc, fam) == ~(sc = "None")

\* if score is None and 'reparam' in self.variational.__class__.__dict__:
\*     self.score = False
\* else: self.score = True
ResolveScore(sc, fam) == ~(sc = "None" /\ DefinesReparam(fam))

\* a decay that counts the step being applied: the rate drops one step early
exponential_decay_early(g) ==
    LET k == (g + 1) \div DecaySteps
    IN  << StarterLearningRate[1] * Pow(DecayRate[1], k),
           StarterLearningRate[2] * Pow(DecayRate[2], k) >>

\* tf.train.exponential_decay(starter_learning_rate, global_step, 100, 0.9,
\* staircase=True): starter * decay_rate ^ floor(global_step / decay_steps),
\* as the fraction <<numerator, denominator>>
exponential_decay(g) ==
    LET k == g \div DecaySteps
    IN  << StarterLearningRate[1] * Pow(DecayRate[1], k),
           StarterLearningRate[2] * Pow(DecayRate[2], k) >>

\* run, from its call to the optimizer (lines 47-74): the configuration, the
\* estimator, the samples placeholder, the loss (or the exception that leaves
\* run) and the global step.  n_minibatch and n_data only shape the tensors
\* and are not part of the state.
Run(sc, ni, np) ==
    /\ pc \in {"constructed", "done", "raised"}
    /\ n_runs < MaxRuns
    /\ n_runs' = n_runs + 1
    /\ score_arg' = sc
    /\ n_iter' = ni
    /\ n_print' = np
    /\ score' = ResolveScore(sc, family)
    /\ n_draws' = 0
    /\ n_steps' = 0
    /\ reports' = <<>>
    /\ learning_rate' = <<>>
    /\ samples' = "placeholder"
    /\ t' = Absent
    /\ LET loss == IF score' THEN build_score_loss(engine, family, num_vars)
                   ELSE build_reparam_loss(engine, family, num_vars)
       IN  /\ built' = loss.calls
           /\ elbos' = loss.elbos
           /\ error' = loss.error
           /\ IF loss.raised
              THEN pc' = "raised" /\ global_step' = Absent
              ELSE pc' = "init" /\ global_step' = 0
    /\ UNCHANGED <<engine, family, num_vars, params, ret>>

\* run, lines 75-79: a new session, sess.run(tf.initialize_all_variables())
\* assigns every variable of the graph its initial value (the families'
\* variables are tf.Variable(tf.random_normal(...))), then the loop starts
Initialize ==
    /\ pc = "init"
    /\ params' \in ParamVectors(family, num_vars)
    /\ IF n_iter > 0
       THEN t' = 0 /\ pc' = "sample"
       ELSE t' = t /\ pc' = "done"
    /\ UNCHANGED <<engine, family, num_vars, n_runs, score_arg, score, n_iter,
                   n_print, global_step, learning_rate, samples, n_draws,
                   n_steps, reports, built, elbos, error, ret>>

\* update, first half: the batch bound to the samples placeholder
Sample ==
    /\ pc = "sample"
    /\ samples' = IF score THEN "variational.sample" ELSE "variational.sample_noise"
    /\ n_draws' = n_draws + 1
    /\ pc' = "step"
    /\ UNCHANGED <<engine, family, num_vars, params, n_runs, score_arg, score,
                   n_iter, n_print, t, global_step, learning_rate, n_steps, reports,
                   built, elbos, error, ret>>

\* update, second half: sess.run([update, self.elbos]) applies the optimizer
\* step (AdamOptimizer.minimize with global_step) and evaluates the ELBO
Step ==
    /\ pc = "step"
    /\ learning_rate' = exponential_decay(global_step)
    /\ params' \in ParamVectors(family, num_vars)
    /\ global_step' = global_step + 1
    /\ n_steps' = n_steps + 1
    /\ pc' = "print"
    /\ UNCHANGED <<engine, family, num_vars, n_runs, score_arg, score, n_iter,
                   n_print, t, samples, n_draws, reports, built, elbos, error, ret>>

\* a report at the end of every n_print iterations instead of at their start
Reports_offByOne(tt, np) == (tt + 1) % np = 0

\* if t % self.n_print == 0
Reports(tt, np) == tt % np = 0

\* a loop that runs while t <= n_iter: one iteration too many
PrintProgress_extraIteration ==
    /\ pc = "print"
    /\ reports' = IF t % n_print = 0
                  THEN Append(reports, <<t, n_steps>>) ELSE reports
    /\ IF t + 1 <= n_iter
       THEN t' = t + 1 /\ pc' = "sample"
       ELSE t' = t /\ pc' = "done"
    /\ UNCHANGED <<engine, family, num_vars, params, n_runs, score_arg, score,
                   n_iter, n_print, global_step, learning_rate, samples, n_draws,
                   n_steps, built, elbos, error, ret>>

\* a report that stores what it prints: the last unconstrained parameter is
\* overwritten by the completion 1 - sum(others)
PrintProgress_writesBack ==
    /\ pc = "print"
    /\ reports' = IF t % n_print = 0
                  THEN Append(reports, <<t, n_steps>>) ELSE reports
    /\ params' = IF t % n_print = 0
                 THEN [params EXCEPT ![Len(params)] = 1 - SumTo(params, Len(params) - 1)]
                 ELSE params
    /\ IF t + 1 < n_iter
       THEN t' = t + 1 /\ pc' = "sample"
       ELSE t' = t /\ pc' = "done"
    /\ UNCHANGED <<engine, family, num_vars, n_runs, score_arg, score,
                   n_iter, n_print, global_step, learning_rate, samples, n_draws,
                   n_steps, built, elbos, error, ret>>

\* print_progress(t, elbo, sess), and the loop's next t
PrintProgress ==
    /\ pc = "print"
    /\ reports' = IF Reports(t, n_print)
                  THEN Append(reports, <<t, n_steps>>) ELSE reports
    /\ IF t + 1 < n_iter
       THEN t' = t + 1 /\ pc' = "sample"
       ELSE t' = t /\ pc' = "done"
    /\ UNCHANGED <<engine, family, num_vars, params, n_runs, score_arg, score,
                   n_iter, n_print, global_step, learning_rate, samples, n_draws,
                   n_steps, built, elbos, error, ret>>

\* ------------------------------------------------- the families' methods
\* sess.run of a transform applied to a whole parameter vector
SigmoidAll(u) == [d \in 1..Len(u) |-> Sigmoid(u[d])]

SoftplusAll(u) == [d \in 1..Len(u) |-> Softplus(u[d])]

IdentityAll(u) == [d \in 1..Len(u) |-> Identity(u[d])]

\* if p.size > 1: p[-1] = 1.0 - np.sum(p[:-1])
Completed(p) ==
    IF Len(p) > 1 THEN [p EXCEPT ![Len(p)] = 1000 - SumTo(p, Len(p) - 1)]
    ELSE p

\* what a bare raise statement, executed while no exception is being handled,
\* raises: Python 3's RuntimeError or Python 2's TypeError
BareRaise ==
    { [type |-> "RuntimeError", args |-> <<"No active exception to reraise">>],
      [type |-> "TypeError", args |-> <<"exceptions must be old-style classes or derived from BaseException, not NoneType">>] }

Raised(exc) == [raised |-> TRUE, error |-> exc, fn |-> Absent, col |-> Absent, args |-> <<>>]

Returned(f, c, a) == [raised |-> FALSE, error |-> NoError, fn |-> f, col |-> c, args |-> a]

\* MFBernoulli.log_prob_zi(i, z): bernoulli.logpmf(z[:, i], pi)
MFBernoulli_log_prob_zi(nv, p_unconst, i, exc) ==
    IF i >= nv THEN Raised(exc)
    ELSE LET pi == IF i < nv THEN Sigmoid(p_unconst[i + 1])
                   ELSE 1000 - Sigmoid(p_unconst[Len(p_unconst)])
         IN  Returned("bernoulli.logpmf", i, <<pi>>)

\* MFBeta.log_prob_zi(i, z): beta.logpdf(z[:, i], ai, bi)
MFBeta_log_prob_zi(nv, a_unconst, b_unconst, i, exc) ==
    IF i >= nv THEN Raised(exc)
    ELSE LET ai == SoftplusAll(a_unconst)[i + 1]
             bi == SoftplusAll(b_unconst)[i + 1]
         IN  Returned("beta.logpdf", i, <<ai, bi>>)

\* MFGaussian.log_prob_zi(i, z): norm.logpdf(zm[i], mi, si*si) for each row zm
\* (si*si is in millionths)
MFGaussian_log_prob_zi(nv, m_unconst, s_unconst, i, exc) ==
    IF i >= nv THEN Raised(exc)
    ELSE LET mi == IdentityAll(m_unconst)[i + 1]
             si == SoftplusAll(s_unconst)[i + 1]
         IN  Returned("norm.logpdf", i, <<mi, si * si>>)

\* the first and the second parameter tensor of a two-tensor family
\* (a_unconst and b_unconst, m_unconst and s_unconst)
First(nv, p) == SubSeq(p, 1, nv)
Second(nv, p) == SubSeq(p, nv + 1, 2 * nv)

\* self.variational.log_prob_zi(i, z), dispatched on the family's class
log_prob_zi(fam, nv, p, i, exc) ==
    CASE fam = "MFBernoulli" -> MFBernoulli_log_prob_zi(nv, p, i, exc)
      [] fam = "MFBeta" -> MFBeta_log_prob_zi(nv, First(nv, p), Second(nv, p), i, exc)
      [] OTHER -> MFGaussian_log_prob_zi(nv, First(nv, p), Second(nv, p), i, exc)

\* sample(size, sess): the distribution routine each column is drawn with and
\* the parameter vectors handed to it
sample(fam, nv, p) ==
    CASE fam = "MFBernoulli" ->
           Returned("bernoulli.rvs", Absent, <<Completed(SigmoidAll(p))>>)
      [] fam = "MFBeta" ->
           Returned("beta.rvs", Absent, <<SoftplusAll(First(nv, p)),
                                          SoftplusAll(Second(nv, p))>>)
      [] OTHER ->
           Returned("m + s * norm.rvs", Absent, <<IdentityAll(First(nv, p)),
                                                  SoftplusAll(Second(nv, p))>>)

\* print_params(sess): the labels and the vectors printed
print_params(fam, nv, p) ==
    CASE fam = "MFBernoulli" ->
           Returned("print", Absent, <<"probability:", Completed(SigmoidAll(p))>>)
      [] fam = "MFBeta" ->
           Returned("print", Absent, <<"shape:", SoftplusAll(First(nv, p)),
                                       "scale:", SoftplusAll(Second(nv, p))>>)
      [] OTHER ->
           Returned("print", Absent, <<"mean:", IdentityAll(First(nv, p)),
                                       "std dev:", SoftplusAll(Second(nv, p))>>)

\* a direct call of log_prob_zi(i, z) on the family
Call_log_prob_zi(i) ==
    /\ \E exc \in BareRaise :
         ret' = [op |-> "log_prob_zi", i |-> i,
                 out |-> log_prob_zi(family, num_vars, params, i, exc)]
    /\ UNCHANGED <<engine, family, num_vars, params, n_runs, pc, score_arg, score,
                   n_iter, n_print, t, global_step, learning_rate, samples,
                   n_draws, n_steps, reports, built, elbos, error>>

\* a direct call of sample(size, sess) on the family
Call_sample ==
    /\ ret' = [op |-> "sample", i |-> Absent, out |-> sample(family, num_vars, params)]
    /\ UNCHANGED <<engine, family, num_vars, params, n_runs, pc, score_arg, score,
                   n_iter, n_print, t, global_step, learning_rate, samples,
                   n_draws, n_steps, reports, built, elbos, error>>

\* a direct call of print_params(sess) on the family
Call_print_params ==
    /\ ret' = [op |-> "print_params", i |-> Absent,
               out |-> print_params(family, num_vars, params)]
    /\ UNCHANGED <<engine, family, num_vars, params, n_runs, pc, score_arg, score,
                   n_iter, n_print, t, global_step, learning_rate, samples,
                   n_draws, n_steps, reports, built, elbos, error>>

NoRet == [op |-> "none", i |-> Absent, out |-> Absent]

\* -------------------------------------------------------- specifications
\* the engine after Inference.__init__
Constructed ==
    /\ n_runs = 0
    /\ pc = "constructed"
    /\ score_arg = Absent
    /\ score = Absent
    /\ n_iter = Absent
    /\ n_print = Absent
    /\ t = Absent
    /\ global_step = Absent
    /\ learning_rate = <<>>
    /\ samples = Absent
    /\ n_draws = 0
    /\ n_steps = 0
    /\ reports = <<>>
    /\ built = <<>>
    /\ elbos = Absent
    /\ error = NoError
    /\ ret = NoRet

\* an engine on a freshly constructed family: no session has initialised the
\* family's variables yet
Init ==
    /\ engine \in Engines
    /\ family \in Families
    /\ num_vars \in 1..MaxVars
    /\ params = <<>>
    /\ Constructed

Next ==
    \/ \E sc \in ScoreArgs, ni \in 0..MaxIter, np \in 1..MaxPrint : Run(sc, ni, np)
    \/ Initialize
    \/ Sample
    \/ Step
    \/ PrintProgress

Spec == Init /\ [][Next]_vars

\* runs long enough to cross the decay boundaries of the learning rate
DecayIters == {DecaySteps, 2 * DecaySteps + MaxOver}

InitDecay ==
    /\ engine \in Engines
    /\ family = "MFGaussian"
    /\ num_vars = 1
    /\ params = <<>>
    /\ Constructed

NextDecay ==
    \/ \E sc \in ScoreArgs, ni \in DecayIters, np \in 1..MaxPrint : Run(sc, ni, np)
    \/ Initialize
    \/ Sample
    \/ Step
    \/ PrintProgress

SpecDecay == InitDecay /\ [][NextDecay]_vars

\* a family of likelihoods.py whose variables a session has initialised, and
\* direct calls of its methods
InitFamily ==
    /\ engine \in Engines
    /\ family \in SourceFamilies
    /\ num_vars \in 1..MaxVars
    /\ params \in ParamVectors(family, num_vars)
    /\ Constructed

NextFamily ==
    \/ \E i \in 0..(MaxVars + 1) : Call_log_prob_zi(i)
    \/ Call_sample
    \/ Call_print_params

SpecFamily == InitFamily /\ [][NextFamily]_vars

\* ------------------------------------------------------------- properties
\* run has been called on the engine at least once
Configured == n_runs > 0

\* run has passed loss construction
LossBuilt == pc \in {"init", "sample", "step", "print", "done"}

\* position of the first occurrence of name in the sequence q, 0 if none
RECURSIVE IndexOf(_, _, _)
IndexOf(q, name, from) ==
    IF from > Len(q) THEN 0
    ELSE IF q[from] = name THEN from ELSE IndexOf(q, name, from + 1)

\* C1: once run has resolved the estimator, the score estimator is used
\* (self.score = True, build_score_loss called) exactly when score=True was
\* passed or the family does not define reparam; otherwise, and in
\* particular for score=False on a family that defines reparam, the
\* reparameterization estimator is used (self.score = False,
\* build_reparam_loss called).
C1_EstimatorResolution ==
    Configured =>
        LET wantScore == score_arg = "True" \/ ~DefinesReparam(family)
        IN  /\ score = wantScore
            /\ built[1] = IF wantScore THEN "build_score_loss"
                          ELSE "build_reparam_loss"

\* C2: in every state after run resolved the estimator, over any sequence of
\* run calls, self.score is False only if the family's class defines reparam;
\* for a family without it self.score is True and build_reparam_loss is
\* never called.
C2_ScoreFalseOnlyWithReparam ==
    Configured =>
        /\ score = FALSE => DefinesReparam(family)
        /\ ~DefinesReparam(family) =>
               /\ score = TRUE
               /\ IndexOf(built, "build_reparam_loss", 1) = 0
               /\ samples # "variational.sample_noise"

\* C2 witness: a second run on a family without reparam, called with the
\* default score, has finished with the score estimator
C2_Witness ==
    /\ n_runs = 2
    /\ family = "MFBeta"
    /\ score_arg = "None"
    /\ pc = "done"
    /\ score = TRUE
    /\ built[1] = "build_score_loss"

ExpectedReports(k, np) ==
    [j \in 1..((k + np - 1) \div np) |-> <<(j - 1) * np, (j - 1) * np + 1>>]

\* C4: with n_print = P >= 1, progress is reported at iteration t exactly
\* when t mod P = 0: the reports made so far are those of iterations 0, P,
\* 2P, ... among the iterations completed, each after that iteration's
\* optimizer step (t + 1 steps applied), ceil(N / P) of them when the run is
\* done.
C4_ReportsEveryNPrint ==
    /\ pc = "init" => reports = <<>>
    /\ pc \in {"sample", "step", "print"} => reports = ExpectedReports(t, n_print)
    /\ pc = "done" =>
           /\ reports = ExpectedReports(n_iter, n_print)
           /\ Len(reports) = (n_iter + n_print - 1) \div n_print
           /\ n_iter >= 1 => reports[1] = <<0, 1>>

\* C4 witness: a run of 3 iterations with n_print = 2 is done and has
\* reported twice, at iterations 0 and 2, not at iteration 1
C4_Witness ==
    /\ pc = "done"
    /\ n_iter = 3
    /\ n_print = 2
    /\ reports = << <<0, 1>>, <<2, 3>> >>

\* C5: on KLpq the reparameterization loss fails with a NotImplementedError
\* whose message names the workaround (run with score=True), whether
\* build_reparam_loss is called directly or by a run that resolved the
\* estimator to reparameterization; the run call ends in that exception
\* with the family's parameters unchanged, and no batch has been drawn, no
\* step applied and nothing reported when run has raised.
C5_KLpqReparamUnsupported ==
    [][ n_runs' = n_runs + 1 =>
          /\ LET r == build_reparam_loss("KLpq", family, num_vars)
             IN  /\ r.raised
                 /\ r.error.type = "NotImplementedError"
                 /\ IndexOf(r.error.args, "Please call .run() with score=True.", 1) > 0
          /\ (engine = "KLpq" /\ score' = FALSE) =>
                /\ pc' = "raised"
                /\ error'.type = "NotImplementedError"
                /\ IndexOf(error'.args, "Please call .run() with score=True.", 1) > 0
          /\ pc' = "raised" =>
                /\ params' = params
                /\ n_draws' = 0 /\ n_steps' = 0 /\ reports' = <<>>
                /\ samples' = "placeholder"
      ]_vars

\* C5 witness: run() with the default score on KLpq with MFGaussian has
\* raised, on an engine whose earlier run gave the parameters their values
C5_Witness ==
    /\ pc = "raised"
    /\ engine = "KLpq"
    /\ family = "MFGaussian"
    /\ score_arg = "None"
    /\ score = FALSE
    /\ n_runs = 2
    /\ params # <<>>
    /\ error.type = "NotImplementedError"

\* C6: for every family and every i >= num_vars, log_prob_zi(i, z) fails
\* with an index-out-of-range error and returns no component; for
\* 0 <= i < num_vars it does not raise.
C6_IndexOutOfRange ==
    ret.op = "log_prob_zi" =>
        /\ ret.i >= num_vars =>
               /\ ret.out.raised
               /\ ret.out.error.type = "IndexError"
               /\ ret.out.fn = Absent
        /\ ret.i < num_vars => ~ret.out.raised

\* C7: the global step starts at 0 in each run and grows by 1 per optimizer
\* step; the step applied when the counter is g uses the rate
\* 0.1 * 0.9^(g div 100): 0.1 for the first 100 steps, and 0.09 is the rate
\* in effect after exactly 100 iterations.
C7_StaircaseLearningRate ==
    LossBuilt =>
        /\ pc = "init" => global_step = 0
        /\ global_step = n_steps
        /\ n_steps > 0 =>
               LET k == (n_steps - 1) \div 100
               IN  learning_rate = <<Pow(9, k), Pow(10, k + 1)>>
        /\ n_steps \in 1..100 => learning_rate = <<1, 10>>
        /\ n_steps \in 101..200 => learning_rate = <<9, 100>>
        /\ global_step = 100 => exponential_decay(global_step) = <<9, 100>>

\* C7 witness: the 101st optimizer step of a run has been applied, with
\* rate 0.09
C7_Witness ==
    /\ pc = "print"
    /\ n_steps = 101
    /\ global_step = 101
    /\ learning_rate = <<9, 100>>

\* C8, as claimed: parameters that have their values change only in an
\* optimizer step; no other action, starting a run and initialising the
\* variables included, changes them.
C8_OnlyOptimizerStep ==
    [][ (params # <<>> /\ params' # params) =>
            (pc = "step" /\ n_steps' = n_steps + 1) ]_vars

\* C8, amended: the parameters change only in an optimizer step or in the
\* initialisation of the variables at the start of a run; configuring a run
\* (also one that raises), drawing a batch and reporting leave them as they
\* are.
C8_OnlyStepOrInitialize ==
    [][ params' # params =>
            \/ pc = "step" /\ n_steps' = n_steps + 1
            \/ pc = "init" ]_vars

\* C8 witness: the second run on an MFBernoulli of two dimensions is done,
\* after steps and reports
C8_Witness ==
    /\ family = "MFBernoulli"
    /\ num_vars = 2
    /\ n_runs = 2
    /\ pc = "done"
    /\ n_steps = 2
    /\ Len(reports) = 2

\* the probability of dimension i (from 0) the claim gives MFBernoulli:
\* sigmoid(p_unconst[i]), and 1 - the sum of the other dimensions'
\* probabilities for the last of more than one dimension
ClaimedProbability(i) ==
    IF num_vars > 1 /\ i = num_vars - 1
    THEN 1000 - SumTo(SigmoidAll(params), num_vars - 1)
    ELSE Sigmoid(params[i + 1])

\* C9: sample, print_params and log_prob_zi of MFBernoulli all use the
\* completed probability vector; log_prob_zi(num_vars-1, z) evaluates the
\* log-pmf at the completed probability of the last dimension.
C9_SameCompletedProbabilities ==
    family = "MFBernoulli" =>
        /\ ret.op = "sample" =>
               ret.out.args[1] = [d \in 1..num_vars |-> ClaimedProbability(d - 1)]
        /\ ret.op = "print_params" =>
               ret.out.args[2] = [d \in 1..num_vars |-> ClaimedProbability(d - 1)]
        /\ (ret.op = "log_prob_zi" /\ ret.i < num_vars) =>
               ret.out.args = <<ClaimedProbability(ret.i)>>

\* C10: MFVI.build_score_loss on a family with an analytic entropy builds
\* the objective without an error: the data is sampled before the model's
\* log_prob is evaluated, and the per-draw ELBO is log p(x, z) + H(q).
C10_AnalyticEntropyScoreLoss ==
    (Configured /\ engine = "MFVI" /\ HasEntropy(family) /\ score = TRUE) =>
        /\ pc # "raised"
        /\ error = NoError
        /\ IndexOf(built, "data.sample", 1) > 0
        /\ IndexOf(built, "data.sample", 1) < IndexOf(built, "model.log_prob", 1)
        /\ elbos = "log_prob(x, samples) + entropy()"

====
